---- MODULE Spec2Model ----
(***************************************************************************)
(* Model of src/app.py: the brain-region intron filter.                    *)
(*                                                                         *)
(* main() reads a genome annotation, derives introns from its exons,       *)
(* matches them against the regions of a second annotation and joins the   *)
(* matches with a list of known introns.  Each statement group of main()   *)
(* is one action; the locals of main() are the variables.                  *)
(*                                                                         *)
(* Text is modelled as a sequence of tokens: the characters the code       *)
(* looks at (space, semicolon, double quote) are tokens of their own, and  *)
(* every other run of characters is one word.  A line of an annotation is  *)
(* the sequence of its tab-separated fields.  A table (pandas DataFrame)   *)
(* is a record of its column names and its rows; a missing cell (NaN) is   *)
(* recorded in the row's `na` set.                                         *)
(***************************************************************************)
EXTENDS Integers, Sequences, FiniteSets, TLC

VARIABLES
    gtf_file,            \* uploaded genome annotation: sequence of lines
    brain_gtf_file,      \* uploaded region annotation: sequence of lines
    intron_list_file,    \* uploaded known-intron list: header line, then rows
    sort_ties,           \* how the build's unstable sort orders equal keys
    pc,                  \* position in main()
    raised,              \* exception that ended the run, or "none"
    gtf, exons, introns, \* locals of main()
    brain_gtf, brain_regions, introns_with_brain,
    known_introns, filtered,
    found,               \* the count reported by st.success
    run,                 \* number of the current script run
    previous             \* outcome of the script run before this one

vars == <<gtf_file, brain_gtf_file, intron_list_file, sort_ties, pc, raised,
          gtf, exons, introns, brain_gtf, brain_regions, introns_with_brain,
          known_introns, filtered, found, run, previous>>

inputs == <<gtf_file, brain_gtf_file, intron_list_file, sort_ties>>

locals == <<gtf, exons, introns, brain_gtf, brain_regions, introns_with_brain,
            known_introns, filtered, found>>

(***************************************************************************)
(* Bounds of the model.                                                    *)
(***************************************************************************)
MaxLines == 3      \* exon lines of an enumerated genome annotation
MaxCoord == 5      \* largest coordinate of the exons of one transcript
SmallCoord == 3    \* largest coordinate where other fields vary as well
MaxRegions == 2    \* lines of an enumerated region annotation
MaxKnown == 2      \* rows of the known-intron list
MaxRuns == 2       \* script runs on the same uploads

(***************************************************************************)
(* Generic helpers.                                                        *)
(***************************************************************************)
SeqsUpTo(S, n) == UNION {[1..k -> S] : k \in 0..n}

Range(s) == {s[i] : i \in DOMAIN s}

RECURSIVE Flatten(_)
Flatten(ss) == IF ss = <<>> THEN <<>> ELSE Head(ss) \o Flatten(Tail(ss))

Map(s, Op(_)) == [i \in 1..Len(s) |-> Op(s[i])]

(***************************************************************************)
(* Python string operations, on token sequences.                           *)
(***************************************************************************)
Whitespace == {" "}

RECURSIVE lstrip(_, _)
lstrip(s, chars) ==
    IF Len(s) > 0 /\ Head(s) \in chars THEN lstrip(Tail(s), chars) ELSE s

RECURSIVE rstrip(_, _)
rstrip(s, chars) ==
    IF Len(s) > 0 /\ s[Len(s)] \in chars
    THEN rstrip(SubSeq(s, 1, Len(s) - 1), chars)
    ELSE s

\* str.strip(chars)
strip(s, chars) == rstrip(lstrip(s, chars), chars)

FirstIndex(s, sep) ==
    CHOOSE i \in 1..Len(s) : s[i] = sep /\ \A j \in 1..(i - 1) : s[j] # sep

\* str.split(sep, 1)
split1(s, sep) ==
    IF \E i \in 1..Len(s) : s[i] = sep
    THEN LET i == FirstIndex(s, sep)
         IN  <<SubSeq(s, 1, i - 1), SubSeq(s, i + 1, Len(s))>>
    ELSE <<s>>

\* str.split(sep)
RECURSIVE split(_, _)
split(s, sep) ==
    IF \E i \in 1..Len(s) : s[i] = sep
    THEN LET i == FirstIndex(s, sep)
         IN  <<SubSeq(s, 1, i - 1)>> \o split(SubSeq(s, i + 1, Len(s)), sep)
    ELSE <<s>>

\* Order of Python strings (code points), for the words the model uses.
Collation == <<" ", "\"", ";", "G1", "G2", "T1", "T2",
               "gene_id", "transcript_id", "unknown">>

WordRank(w) == CHOOSE i \in 1..Len(Collation) : Collation[i] = w

RECURSIVE StrLess(_, _)
StrLess(a, b) ==
    IF b = <<>> THEN FALSE
    ELSE IF a = <<>> THEN TRUE
    ELSE IF Head(a) = Head(b) THEN StrLess(Tail(a), Tail(b))
    ELSE WordRank(Head(a)) < WordRank(Head(b))

(***************************************************************************)
(* Tables.                                                                 *)
(***************************************************************************)
\* pd.DataFrame(list of dicts): the columns come from the dicts, so an empty
\* list gives a table with no columns at all.
DataFrame(records) ==
    [columns |-> IF records = <<>> THEN {} ELSE DOMAIN records[1] \ {"na"},
     rows |-> records]

Filter(df, Keep(_)) == [columns |-> df.columns, rows |-> SelectSeq(df.rows, Keep)]

IsNa(row, c) == c \in row.na

(***************************************************************************)
(* read_gtf (lines 6-13).                                                  *)
(***************************************************************************)
cols == <<"seqname", "source", "feature", "start", "end",
          "score", "strand", "frame", "attribute">>

CommentLine == <<"#!genome-build GRCh38">>

\* comment="#": a line that starts with the comment character has no fields
IsComment(line) == line = CommentLine

\* skip_blank_lines
IsBlank(line) == line = <<>>

\* What an absent cell holds; it is never read without looking at `na`.
Absent(c) == IF c \in {"start", "end"} THEN 0
             ELSE IF c = "attribute" THEN <<>> ELSE "nan"

\* One data line under names=cols: the fields are assigned by position and a
\* line with fewer fields than names has its trailing cells filled with NaN.
RowOfLine(line) ==
    LET cell(i) == IF i <= Len(line) THEN line[i] ELSE Absent(cols[i])
    IN  [na |-> {cols[i] : i \in (Len(line) + 1)..Len(cols)},
         seqname |-> cell(1), source |-> cell(2), feature |-> cell(3),
         start |-> cell(4), end |-> cell(5), score |-> cell(6),
         strand |-> cell(7), frame |-> cell(8), attribute |-> cell(9)]

IsData(line) == ~IsComment(line) /\ ~IsBlank(line)

read_gtf(file) ==
    [columns |-> Range(cols),
     rows |-> Map(SelectSeq(file, IsData), RowOfLine)]

(***************************************************************************)
(* parse_attributes (lines 16-22).                                         *)
(***************************************************************************)
Put(attrs, key, val) ==
    [k \in DOMAIN attrs \cup {key} |-> IF k = key THEN val ELSE attrs[k]]

\* The loop of lines 18-21; ok is FALSE when line 20 cannot unpack an item
\* that has no space (ValueError).
RECURSIVE parse_items(_, _)
parse_items(items, attrs) ==
    IF items = <<>> THEN [ok |-> TRUE, attrs |-> attrs]
    ELSE LET item == strip(Head(items), Whitespace)
         IN  IF item = <<>> THEN parse_items(Tail(items), attrs)
             ELSE LET kv == split1(item, " ")
                  IN  IF Len(kv) # 2 THEN [ok |-> FALSE, attrs |-> attrs]
                      ELSE parse_items(Tail(items),
                                       Put(attrs, kv[1], strip(kv[2], {"\""})))

parse_attributes(attr_str) ==
    parse_items(split(strip(attr_str, Whitespace), ";"), <<>>)

\* Variant of transcript_id_of: falls back on the gene instead of "unknown"
transcript_id_or_gene(attrs) ==
    IF <<"transcript_id">> \in DOMAIN attrs
    THEN attrs[<<"transcript_id">>]
    ELSE IF <<"gene_id">> \in DOMAIN attrs THEN attrs[<<"gene_id">>] ELSE <<"unknown">>

\* d.get("transcript_id", "unknown") (line 27)
transcript_id_of(attrs) ==
    IF <<"transcript_id">> \in DOMAIN attrs
    THEN attrs[<<"transcript_id">>]
    ELSE <<"unknown">>

(***************************************************************************)
(* extract_introns (lines 25-43).                                          *)
(***************************************************************************)
Extend(row, extra) ==
    [f \in DOMAIN row \cup DOMAIN extra |->
        IF f \in DOMAIN extra THEN extra[f] ELSE row[f]]

\* Line 26 applies parse_attributes to every exon in turn.  A NaN attribute
\* is a float, which has no strip (AttributeError); an item without a space
\* cannot be unpacked (ValueError).
AttributeFails(row) ==
    IsNa(row, "attribute") \/ ~parse_attributes(row.attribute).ok

AttributeError(row) ==
    IF IsNa(row, "attribute") THEN "AttributeError" ELSE "ValueError"

\* Lines 26-27: the two columns added to exons
WithTranscript(row) ==
    LET attrs == parse_attributes(row.attribute).attrs
    IN  Extend(row, [attributes |-> attrs,
                     transcript_id |-> transcript_id_of(attrs)])

\* Variant of new_intron_records: the list of the run before is kept
stale_intron_records == introns.rows

\* Line 28: intron_records = []
new_intron_records == <<>>

\* groupby("transcript_id") visits the groups in ascending key order
GroupKeys(rows) ==
    LET keys == {rows[i].transcript_id : i \in DOMAIN rows}
        rank(k) == Cardinality({j \in keys : StrLess(j, k)}) + 1
    IN  [n \in 1..Cardinality(keys) |-> CHOOSE k \in keys : rank(k) = n]

\* and each group keeps its rows in their order of appearance
GroupRows(rows, tid) == SelectSeq(rows, LAMBDA r : r.transcript_id = tid)

\* Variant of sort_values: the group is left in its order of appearance
sort_values_skipped(group, ties) == group

\* Line 30: group.sort_values("start").  The default sort is not stable:
\* rows with equal start keep their order under some builds ("stable") and
\* not under others ("reversed").
sort_values(group, ties) ==
    LET n == Len(group)
        before(i, j) ==
            \/ group[i].start < group[j].start
            \/ /\ group[i].start = group[j].start
               /\ IF ties = "stable" THEN i < j ELSE i > j
        rank(i) == Cardinality({j \in 1..n : before(j, i)}) + 1
    IN  [k \in 1..n |-> group[CHOOSE i \in 1..n : rank(i) = k]]

\* Line 31
coords_of(group) == [i \in 1..Len(group) |-> <<group[i].start, group[i].end>>]

\* Line 33
intron_start_of(prev) == prev[2] + 1

\* Line 34
intron_end_of(next) == next[1] - 1

\* Variants of emits: one-base introns dropped; nothing dropped
emits_longer(intron_start, intron_end) == intron_end > intron_start

emits_always(intron_start, intron_end) == TRUE

\* Line 35
emits(intron_start, intron_end) == intron_end >= intron_start

\* Variant of iloc0: the last row of the sorted group
iloc_last(group) == group[Len(group)]

\* Lines 38 and 41: group.iloc[0], the first row of the sorted group
iloc0(group) == group[1]

\* Lines 30-42 for one group
GroupIntrons(tid, rows, ties) ==
    LET group == sort_values(rows, ties)
        coords == coords_of(group)
        record(i) == [transcript_id |-> tid,
                      seqname |-> iloc0(group).seqname,
                      start |-> intron_start_of(coords[i]),
                      end |-> intron_end_of(coords[i + 1]),
                      strand |-> iloc0(group).strand]
    IN  SelectSeq([i \in 1..(Len(coords) - 1) |-> record(i)],
                  LAMBDA r : emits(r.start, r.end))

extract_introns(frame, ties) ==
    LET failing == {i \in DOMAIN frame.rows : AttributeFails(frame.rows[i])}
    IN  IF failing # {}
        THEN LET first == CHOOSE i \in failing : \A j \in failing : i <= j
             IN  [raised |-> AttributeError(frame.rows[first]),
                  exons |-> frame, introns |-> DataFrame(<<>>)]
        ELSE LET rows == Map(frame.rows, WithTranscript)
                 keys == GroupKeys(rows)
                 perGroup == [n \in 1..Len(keys) |->
                                 GroupIntrons(keys[n], GroupRows(rows, keys[n]), ties)]
             IN  [raised |-> "none",
                  exons |-> [columns |-> frame.columns
                                          \cup {"attributes", "transcript_id"},
                             rows |-> rows],
                  introns |-> DataFrame(new_intron_records \o Flatten(perGroup))]

(***************************************************************************)
(* overlaps (lines 46-47) and introns_in_brain_regions (lines 50-64).      *)
(***************************************************************************)
\* A number that may be NaN.  Every comparison with NaN is false.
Num(v) == [na |-> FALSE, v |-> v]
Cell(row, c) == [na |-> IsNa(row, c), v |-> row[c]]

Greater(x, y) == ~x.na /\ ~y.na /\ x.v > y.v
LessEq(x, y) == ~x.na /\ ~y.na /\ x.v <= y.v

\* Python's max(a, b) and min(a, b): b only if it compares beyond a
max(a, b) == IF Greater(b, a) THEN b ELSE a
min(a, b) == IF Greater(a, b) THEN b ELSE a

\* Variant of overlaps: touching endpoints do not count
overlaps_open(a_start, a_end, b_start, b_end) ==
    Greater(min(a_end, b_end), max(a_start, b_start))

overlaps(a_start, a_end, b_start, b_end) ==
    LessEq(max(a_start, b_start), min(a_end, b_end))

\* Lines 53-56
Matching(intron, regions) ==
    SelectSeq(regions.rows,
              LAMBDA row :
                  /\ ~IsNa(row, "seqname")
                  /\ row.seqname = intron.seqname
                  /\ overlaps(Num(intron.start), Num(intron.end),
                              Cell(row, "start"), Cell(row, "end")))

BrainColumn(c) ==
    CASE c = "source" -> "brain_region_source"
      [] c = "start" -> "brain_region_start"
      [] c = "end" -> "brain_region_end"

\* Lines 58-63
MatchRecord(intron, region) ==
    Extend(intron,
           [brain_region_source |-> region.source,
            brain_region_start |-> region.start,
            brain_region_end |-> region.end,
            na |-> {BrainColumn(c) : c \in region.na \ {"seqname"}}])

\* Line 51: result = []
new_result == <<>>

introns_in_brain_regions(intronFrame, regions) ==
    LET perIntron == [i \in 1..Len(intronFrame.rows) |->
                         Map(Matching(intronFrame.rows[i], regions),
                             LAMBDA region : MatchRecord(intronFrame.rows[i], region))]
    IN  DataFrame(new_result \o Flatten(perIntron))

(***************************************************************************)
(* The known-intron list (lines 89-92) and the merge (lines 95-100).       *)
(***************************************************************************)
\* pd.read_csv with a header line
read_known(file) ==
    LET header == file[1]
        at(c) == CHOOSE i \in 1..Len(header) : header[i] = c
    IN  [columns |-> Range(header),
         rows |-> Map(Tail(file), LAMBDA line : [c \in Range(header) |-> line[at(c)]])]

on == {"seqname", "start", "end"}

SameKey(l, r) == \A c \in on : l[c] = r[c]

\* Variant of merge: a left row is joined with its first match only
merge_first_match(left, right) ==
    IF ~(on \subseteq left.columns /\ on \subseteq right.columns)
    THEN [raised |-> "KeyError", frame |-> DataFrame(<<>>)]
    ELSE LET hits(i) == SelectSeq(right.rows, LAMBDA r : SameKey(left.rows[i], r))
             perLeft == [i \in 1..Len(left.rows) |->
                            IF hits(i) = <<>> THEN <<>>
                            ELSE <<Extend(hits(i)[1], left.rows[i])>>]
         IN  [raised |-> "none",
              frame |-> [columns |-> left.columns \cup right.columns,
                         rows |-> Flatten(perLeft)]]

\* pd.merge(left, right, on=on, how="inner"): a key that is not a column of
\* both tables is a KeyError; otherwise one row per pair of rows with equal
\* keys, in the order of the left rows.
merge(left, right) ==
    IF ~(on \subseteq left.columns /\ on \subseteq right.columns)
    THEN [raised |-> "KeyError", frame |-> DataFrame(<<>>)]
    ELSE LET perLeft == [i \in 1..Len(left.rows) |->
                            Map(SelectSeq(right.rows,
                                          LAMBDA r : SameKey(left.rows[i], r)),
                                LAMBDA r : Extend(r, left.rows[i]))]
         IN  [raised |-> "none",
              frame |-> [columns |-> left.columns \cup right.columns,
                         rows |-> Flatten(perLeft)]]

(***************************************************************************)
(* main (lines 67-108), one action per statement group.                    *)
(***************************************************************************)
\* Line 78: gtf[gtf["feature"] == "exon"]; NaN equals nothing
exon_rows(frame) ==
    Filter(frame, LAMBDA row : ~IsNa(row, "feature") /\ row.feature = "exon")

\* Lines 77-78
ReadGenome ==
    /\ pc = "read_genome"
    /\ gtf' = read_gtf(gtf_file)
    /\ exons' = exon_rows(gtf')
    /\ pc' = "extract"
    /\ UNCHANGED <<inputs, raised, introns, brain_gtf, brain_regions,
                   introns_with_brain, known_introns, filtered, found, run, previous>>

\* Line 79
ExtractIntrons ==
    /\ pc = "extract"
    /\ LET r == extract_introns(exons, sort_ties)
       IN  IF r.raised # "none"
           THEN /\ pc' = "error"
                /\ raised' = r.raised
                /\ UNCHANGED <<exons, introns>>
           ELSE /\ pc' = "read_brain"
                /\ exons' = r.exons
                /\ introns' = r.introns
                /\ UNCHANGED raised
    /\ UNCHANGED <<inputs, gtf, brain_gtf, brain_regions, introns_with_brain,
                   known_introns, filtered, found, run, previous>>

\* The column selection of line 83
RegionColumns == {"seqname", "source", "start", "end"}

RegionOf(row) ==
    [na |-> row.na \cap RegionColumns, seqname |-> row.seqname,
     source |-> row.source, start |-> row.start, end |-> row.end]

\* Line 83: brain_gtf[brain_gtf["feature"] != "exon"][[...]]; NaN differs
\* from everything
region_rows(frame) ==
    [columns |-> RegionColumns,
     rows |-> Map(SelectSeq(frame.rows,
                            LAMBDA row : IsNa(row, "feature") \/ row.feature # "exon"),
                  RegionOf)]

\* Lines 82-83
ReadBrain ==
    /\ pc = "read_brain"
    /\ brain_gtf' = read_gtf(brain_gtf_file)
    /\ brain_regions' = region_rows(brain_gtf')
    /\ pc' = "match"
    /\ UNCHANGED <<inputs, raised, gtf, exons, introns, introns_with_brain,
                   known_introns, filtered, found, run, previous>>

\* Line 86
MatchRegions ==
    /\ pc = "match"
    /\ introns_with_brain' = introns_in_brain_regions(introns, brain_regions)
    /\ pc' = "load_known"
    /\ UNCHANGED <<inputs, raised, gtf, exons, introns, brain_gtf, brain_regions,
                   known_introns, filtered, found, run, previous>>

\* Lines 89-92
LoadKnown ==
    /\ pc = "load_known"
    /\ known_introns' = read_known(intron_list_file)
    /\ pc' = "merge"
    /\ UNCHANGED <<inputs, raised, gtf, exons, introns, brain_gtf, brain_regions,
                   introns_with_brain, filtered, found, run, previous>>

\* Lines 95-100
Merge ==
    /\ pc = "merge"
    /\ LET r == merge(known_introns, introns_with_brain)
       IN  IF r.raised # "none"
           THEN /\ pc' = "error"
                /\ raised' = r.raised
                /\ UNCHANGED filtered
           ELSE /\ pc' = "report"
                /\ filtered' = r.frame
                /\ UNCHANGED raised
    /\ UNCHANGED <<inputs, gtf, exons, introns, brain_gtf, brain_regions,
                   introns_with_brain, known_introns, found, run, previous>>

\* Lines 102-106
Report ==
    /\ pc = "report"
    /\ found' = Len(filtered.rows)
    /\ pc' = "done"
    /\ UNCHANGED <<inputs, raised, gtf, exons, introns, brain_gtf, brain_regions,
                   introns_with_brain, known_introns, filtered, run, previous>>

\* What a finished run shows: the table and the count, or the exception.
Outcome ==
    IF pc = "done"
    THEN [status |-> "success", table |-> filtered, found |-> found]
    ELSE [status |-> raised, table |-> DataFrame(<<>>), found |-> 0]

\* Lines 110-111: the script runs again on the same uploads.  Nothing is
\* cleared between runs here: the next run has to assign every local of
\* main() before it reads it.
Rerun ==
    /\ pc \in {"done", "error"}
    /\ run < MaxRuns
    /\ run' = run + 1
    /\ previous' = Outcome
    /\ pc' = "read_genome"
    /\ raised' = "none"
    /\ UNCHANGED <<inputs, locals>>

(***************************************************************************)
(* Inputs.                                                                 *)
(***************************************************************************)
Attr_T1 == <<"transcript_id", " ", "\"", "T1", "\"", ";">>
Attr_T2 == <<"gene_id", " ", "\"", "G1", "\"", ";", " ",
             "transcript_id", " ", "\"", "T2", "\"", ";">>
Attr_G1 == <<"gene_id", " ", "\"", "G1", "\"", ";">>
Attr_G2 == <<"gene_id", " ", "\"", "G2", "\"", ";", " ">>
Attr_NoSpace == <<"transcript_id", " ", "\"", "T1", "\"", ";", " ", "gene_id", ";">>

ExonLine(seqname, start, end, strand, attribute) ==
    <<seqname, "havana", "exon", start, end, ".", strand, ".", attribute>>

RegionLine(seqname, source, start, end) ==
    <<seqname, source, "region", start, end, ".", ".", ".", Attr_G1>>

Intervals(n) == {iv \in (1..n) \X (1..n) : iv[1] <= iv[2]}

Prefixes(line) == {SubSeq(line, 1, n) : n \in 0..Len(line)}

KnownHeader == <<"seqname", "start", "end">>

\* The transcripts of section 8 of the specification
ThreeExons ==
    <<ExonLine("chr1", 1, 100, "+", Attr_T1), ExonLine("chr1", 201, 300, "+", Attr_T1),
      ExonLine("chr1", 401, 500, "+", Attr_T1)>>

TouchingExons ==
    <<ExonLine("chr1", 1, 100, "+", Attr_T1), ExonLine("chr1", 101, 200, "+", Attr_T1)>>

\* Uploads that take a run through every statement of main()
GenomeDefault ==
    <<ExonLine("chr1", 1, 1, "+", Attr_T1), ExonLine("chr1", 3, 3, "+", Attr_T1)>>

BrainDefault == <<RegionLine("chr1", "atlas", 1, 3)>>

KnownDefault == <<KnownHeader, <<"chr1", 2, 2>>>>

Fresh ==
    /\ sort_ties \in {"stable", "reversed"}
    /\ pc = "read_genome"
    /\ raised = "none"
    /\ gtf = DataFrame(<<>>)
    /\ exons = DataFrame(<<>>)
    /\ introns = DataFrame(<<>>)
    /\ brain_gtf = DataFrame(<<>>)
    /\ brain_regions = DataFrame(<<>>)
    /\ introns_with_brain = DataFrame(<<>>)
    /\ known_introns = DataFrame(<<>>)
    /\ filtered = DataFrame(<<>>)
    /\ found = 0
    /\ run = 1
    /\ previous = [status |-> "none", table |-> DataFrame(<<>>), found |-> 0]

(***************************************************************************)
(* The whole pipeline, run and run again.                                  *)
(***************************************************************************)
PipelineGenomes ==
    { GenomeDefault,
      <<ExonLine("chr1", 1, 1, "+", Attr_T1)>>,
      <<ExonLine("chr1", 3, 3, "-", Attr_T1), ExonLine("chr2", 2, 2, "+", Attr_T2),
        ExonLine("chr1", 1, 1, "-", Attr_T1), ExonLine("chr2", 5, 5, "+", Attr_T2)>>,
      <<CommentLine, ExonLine("chr1", 1, 1, "+", Attr_T1),
        ExonLine("chr1", 1, 1, "-", Attr_T2), ExonLine("chr1", 3, 3, "-", Attr_T2),
        ExonLine("chr1", 4, 4, "+", Attr_T1)>>,
      <<ExonLine("chr1", 1, 1, "+", Attr_T1), ExonLine("chr1", 3, 3, "+", Attr_NoSpace)>> }

PipelineRegionLines ==
    { RegionLine("chr1", "atlas", 1, 2), RegionLine("chr1", "allen", 2, 3),
      RegionLine("chr2", "atlas", 3, 3), ExonLine("chr1", 2, 2, "+", Attr_T1) }

KnownRows == { <<"chr1", 2, 2>>, <<"chr2", 3, 4>> }

Init ==
    /\ gtf_file \in PipelineGenomes
    /\ brain_gtf_file \in SeqsUpTo(PipelineRegionLines, MaxRegions)
    /\ intron_list_file \in {<<KnownHeader>> \o rows : rows \in SeqsUpTo(KnownRows, MaxKnown)}
    /\ Fresh

Once ==
    \/ ReadGenome
    \/ ExtractIntrons
    \/ ReadBrain
    \/ MatchRegions
    \/ LoadKnown
    \/ Merge
    \/ Report

Next == Once \/ Rerun

Spec == Init /\ [][Next]_vars

(***************************************************************************)
(* Intron derivation alone: ReadGenome and ExtractIntrons on enumerated    *)
(* genome annotations.                                                     *)
(***************************************************************************)
Derive == ReadGenome \/ ExtractIntrons

OtherUploadsDefault ==
    /\ brain_gtf_file = BrainDefault
    /\ intron_list_file = KnownDefault

\* Two transcripts: every exon interval up to SmallCoord in one, every
\* one-base exon in the other
GroupLines ==
    {ExonLine("chr1", iv[1], iv[2], "+", Attr_T1) : iv \in Intervals(SmallCoord)}
    \cup {ExonLine("chr1", c, c, "+", Attr_T2) : c \in 1..SmallCoord}

InitGroups ==
    /\ gtf_file \in SeqsUpTo(GroupLines, MaxLines) \cup {ThreeExons, TouchingExons}
    /\ OtherUploadsDefault
    /\ Fresh

SpecGroups == InitGroups /\ [][Derive]_vars

\* One transcript, every exon of one or two bases up to MaxCoord
OrderLines ==
    {ExonLine("chr1", iv[1], iv[2], "+", Attr_T1) :
        iv \in {x \in Intervals(MaxCoord) : x[2] - x[1] <= 1}}

\* Four exons of one transcript, one nested in or overlapping another, with
\* an intron on either side
NestedExons ==
    <<ExonLine("chr1", 4, 5, "+", Attr_T1), ExonLine("chr1", 1, 1, "+", Attr_T1),
      ExonLine("chr1", 7, 7, "+", Attr_T1), ExonLine("chr1", 3, 6, "+", Attr_T1)>>

OverlappingExons ==
    <<ExonLine("chr1", 3, 4, "+", Attr_T1), ExonLine("chr1", 7, 8, "+", Attr_T1),
      ExonLine("chr1", 4, 5, "+", Attr_T1), ExonLine("chr1", 1, 1, "+", Attr_T1)>>

InitOrder ==
    /\ gtf_file \in SeqsUpTo(OrderLines, MaxLines) \cup {NestedExons, OverlappingExons}
    /\ OtherUploadsDefault
    /\ Fresh

SpecOrder == InitOrder /\ [][Derive]_vars

\* One transcript whose one-base exons lie on either strand
StrandLines ==
    {ExonLine("chr1", c, c, s, Attr_T1) : c \in 1..MaxCoord, s \in {"+", "-"}}

InitStrand ==
    /\ gtf_file \in SeqsUpTo(StrandLines, MaxLines)
    /\ OtherUploadsDefault
    /\ Fresh

SpecStrand == InitStrand /\ [][Derive]_vars

\* Exons with and without a transcript_id, and with a malformed attribute
UnknownLines ==
    {ExonLine("chr1", c, c, "+", a) :
        c \in 1..SmallCoord, a \in {Attr_T1, Attr_G1, Attr_G2, Attr_NoSpace}}

InitUnknown ==
    /\ gtf_file \in SeqsUpTo(UnknownLines, MaxLines)
    /\ OtherUploadsDefault
    /\ Fresh

SpecUnknown == InitUnknown /\ [][Derive]_vars

(***************************************************************************)
(* The region match on enumerated region annotations.                      *)
(***************************************************************************)
OverlapGenomes ==
    { GenomeDefault,
      <<ExonLine("chr1", 1, 1, "+", Attr_T1), ExonLine("chr1", 4, 4, "+", Attr_T1)>>,
      <<ExonLine("chr1", 1, 1, "+", Attr_T1), ExonLine("chr2", 1, 1, "+", Attr_T2),
        ExonLine("chr1", 3, 3, "+", Attr_T1), ExonLine("chr2", 4, 4, "+", Attr_T2)>> }

OverlapRegionLines ==
    {RegionLine(c, "atlas", iv[1], iv[2]) :
        c \in {"chr1", "chr2"}, iv \in Intervals(SmallCoord)}
    \cup {ExonLine("chr1", 2, 2, "+", Attr_T1)}

\* The regions of section 8 of the specification
BoundaryRegionLines ==
    {RegionLine("chr1", "atlas", 200, 250), RegionLine("chr1", "atlas", 201, 250)}

InitOverlap ==
    /\ \/ /\ gtf_file \in OverlapGenomes
          /\ brain_gtf_file \in SeqsUpTo(OverlapRegionLines, MaxRegions)
       \/ /\ gtf_file = ThreeExons
          /\ brain_gtf_file \in SeqsUpTo(BoundaryRegionLines, MaxRegions)
    /\ intron_list_file = KnownDefault
    /\ Fresh

Match == ReadGenome \/ ExtractIntrons \/ ReadBrain \/ MatchRegions

SpecOverlap == InitOverlap /\ [][Match]_vars

(***************************************************************************)
(* Annotation lines with fewer than nine fields, in either annotation.     *)
(***************************************************************************)
ReadLines(line) == (Prefixes(line) \ {line}) \cup {CommentLine}

InitRead ==
    /\ \/ /\ gtf_file \in {GenomeDefault \o more :
                              more \in SeqsUpTo(ReadLines(GenomeDefault[1]), MaxRegions)}
          /\ brain_gtf_file = BrainDefault
       \/ /\ gtf_file = GenomeDefault
          /\ brain_gtf_file \in SeqsUpTo(ReadLines(BrainDefault[1]), MaxRegions)
    /\ intron_list_file = KnownDefault
    /\ Fresh

SpecRead == InitRead /\ [][Next]_vars

(***************************************************************************)
(* Properties.  They are stated on the tables the run has produced, with   *)
(* definitions of their own for what the tables should hold.               *)
(***************************************************************************)
Extracted == pc = "read_brain"

Matched == pc = "load_known"

Indices(frame) == 1..Len(frame.rows)

TranscriptIds == {exons.rows[i].transcript_id : i \in Indices(exons)}

ExonsOf(tid) == SelectSeq(exons.rows, LAMBDA r : r.transcript_id = tid)

IntronsOf(tid) == SelectSeq(introns.rows, LAMBDA r : r.transcript_id = tid)

Span(r) == <<r.start, r.end>>

Arrangements(n) == {p \in [1..n -> 1..n] : \A i, j \in 1..n : i # j => p[i] # p[j]}

Arranged(rows, p) == [i \in 1..Len(rows) |-> rows[p[i]]]

Ascending(rows) == \A i \in 1..(Len(rows) - 1) : rows[i].start <= rows[i + 1].start

\* The gaps between neighbours that are at least one base long
Gaps(rows) ==
    LET gap(i) == <<rows[i].end + 1, rows[i + 1].start - 1>>
    IN  SelectSeq([i \in 1..(Len(rows) - 1) |-> gap(i)], LAMBDA g : g[2] >= g[1])

\* C1: the introns of every transcript are exactly the non-empty gaps
\* (prev.end + 1, next.start - 1) between neighbours of its exons sorted by
\* start, in that order; no other intron is emitted and every intron has
\* end >= start.  Exons (1,100),(201,300),(401,500) give (101,200),(301,400)
\* and the touching exons (1,100),(101,200) give none.
C1_IntronsAreGaps ==
    Extracted =>
        /\ \A tid \in TranscriptIds :
              \E p \in Arrangements(Len(ExonsOf(tid))) :
                  /\ Ascending(Arranged(ExonsOf(tid), p))
                  /\ Map(IntronsOf(tid), Span) = Gaps(Arranged(ExonsOf(tid), p))
        /\ \A i \in Indices(introns) :
              /\ introns.rows[i].transcript_id \in TranscriptIds
              /\ introns.rows[i].end >= introns.rows[i].start
        /\ gtf_file = ThreeExons => Map(introns.rows, Span) = <<<<101, 200>>, <<301, 400>>>>
        /\ gtf_file = TouchingExons => introns.rows = <<>>

\* A run that emitted an intron for one pair of neighbours and none for a
\* touching or overlapping pair of the same transcript
C1_Witness ==
    /\ Extracted
    /\ \E tid \in TranscriptIds :
          /\ Len(ExonsOf(tid)) = 3
          /\ Len(IntronsOf(tid)) = 1
    /\ Cardinality(TranscriptIds) = 1

\* C2: the region-matched table holds one row for every pair of an intron
\* and a region with the same seqname and max(starts) <= min(ends), and no
\* other row.  Intron (101,200) matches region (200,250), not (201,250).
Larger(a, b) == IF a >= b THEN a ELSE b

Smaller(a, b) == IF a <= b THEN a ELSE b

Pairs == Indices(introns) \X Indices(brain_regions)

Overlapping(i, j) ==
    /\ introns.rows[i].seqname = brain_regions.rows[j].seqname
    /\ Larger(introns.rows[i].start, brain_regions.rows[j].start)
          <= Smaller(introns.rows[i].end, brain_regions.rows[j].end)

PairRow(i, j) ==
    [transcript_id |-> introns.rows[i].transcript_id,
     seqname |-> introns.rows[i].seqname,
     start |-> introns.rows[i].start,
     end |-> introns.rows[i].end,
     strand |-> introns.rows[i].strand,
     brain_region_source |-> brain_regions.rows[j].source,
     brain_region_start |-> brain_regions.rows[j].start,
     brain_region_end |-> brain_regions.rows[j].end,
     na |-> {}]

Times(rows, v) == Cardinality({k \in 1..Len(rows) : rows[k] = v})

C2_OneRowPerOverlappingPair ==
    Matched =>
        LET hits == {pr \in Pairs : Overlapping(pr[1], pr[2])}
        IN  /\ Len(introns_with_brain.rows) = Cardinality(hits)
            /\ \A k \in Indices(introns_with_brain) :
                  \E pr \in hits : introns_with_brain.rows[k] = PairRow(pr[1], pr[2])
            /\ \A pr \in hits :
                  Times(introns_with_brain.rows, PairRow(pr[1], pr[2]))
                     = Cardinality({q \in hits : PairRow(q[1], q[2]) = PairRow(pr[1], pr[2])})
            /\ \A k \in Indices(introns_with_brain) :
                  <<introns_with_brain.rows[k].start, introns_with_brain.rows[k].end,
                    introns_with_brain.rows[k].brain_region_start>> # <<101, 200, 201>>

\* Intron (101,200) matched with the region (200,250) that touches its end,
\* and not with (201,250), which is in the same table
C2_Witness ==
    /\ Matched
    /\ Len(brain_regions.rows) = 2
    /\ \E j \in Indices(brain_regions) : brain_regions.rows[j].start = 201
    /\ \E k \in Indices(introns_with_brain) :
          /\ introns_with_brain.rows[k].start = 101
          /\ introns_with_brain.rows[k].end = 200
          /\ introns_with_brain.rows[k].brain_region_start = 200

\* C3: the final table has one row for every pair of a known intron and a
\* region-matched intron with equal (seqname, start, end), duplicates on
\* either side included, and the reported count is that number.
EqualTriples ==
    {pr \in Indices(known_introns) \X Indices(introns_with_brain) :
        /\ known_introns.rows[pr[1]].seqname = introns_with_brain.rows[pr[2]].seqname
        /\ known_introns.rows[pr[1]].start = introns_with_brain.rows[pr[2]].start
        /\ known_introns.rows[pr[1]].end = introns_with_brain.rows[pr[2]].end}

C3_RowsAreEqualTriples ==
    /\ pc \in {"report", "done"} => Len(filtered.rows) = Cardinality(EqualTriples)
    /\ pc = "done" => found = Cardinality(EqualTriples)

\* A known intron listed twice, joined with an intron that two regions
\* matched: four rows
C3_Witness ==
    /\ pc = "done"
    /\ found = 4
    /\ Len(known_introns.rows) = 2
    /\ Len(introns_with_brain.rows) = 2

\* C4: with well-formed uploads and no intron overlapping any region, the
\* run ends in success with zero rows and a reported count of 0.
FullLine(line) == line = CommentLine \/ (Len(line) = Len(cols) /\ line[Len(cols)] # Attr_NoSpace)

WellFormed ==
    /\ \A i \in DOMAIN gtf_file : FullLine(gtf_file[i])
    /\ \A i \in DOMAIN brain_gtf_file : FullLine(brain_gtf_file[i])
    /\ gtf_file # <<>> /\ brain_gtf_file # <<>> /\ Len(intron_list_file) > 1

C4_NoOverlapSucceeds ==
    (/\ pc \in {"done", "error"}
     /\ WellFormed
     /\ \A pr \in Pairs : ~Overlapping(pr[1], pr[2]))
        => (pc = "done" /\ found = 0 /\ filtered.rows = <<>>)

\* C5: an annotation with a data line of fewer than nine fields is a parse
\* error, and no row is made of it.
ShortLine(line) == line # CommentLine /\ Len(line) \in 1..(Len(cols) - 1)

C5_ShortLineIsParseError ==
    /\ (pc # "read_genome" /\ \E i \in DOMAIN gtf_file : ShortLine(gtf_file[i]))
          => (pc = "error" /\ gtf.rows = <<>>)
    /\ (pc \in {"match", "load_known", "merge", "report", "done"}
          => \A i \in DOMAIN brain_gtf_file : ~ShortLine(brain_gtf_file[i]))

\* C6 as stated: the strand of an intron is the strand of the first exon of
\* its transcript in the order of the input.
C6_StrandOfFirstEncountered ==
    Extracted =>
        \A i \in Indices(introns) :
            introns.rows[i].strand = ExonsOf(introns.rows[i].transcript_id)[1].strand

\* C6 amended: the strand of an intron is the strand of an exon of its
\* transcript with the smallest start; when exactly one exon has the
\* smallest start it is that exon's, wherever it stands in the input.
Leftmost(rows) == {i \in 1..Len(rows) : \A j \in 1..Len(rows) : rows[i].start <= rows[j].start}

C6_StrandOfLeftmost ==
    Extracted =>
        \A i \in Indices(introns) :
            LET rows == ExonsOf(introns.rows[i].transcript_id)
            IN  \E k \in Leftmost(rows) : introns.rows[i].strand = rows[k].strand

\* An intron of a transcript whose first exon in the input is not its
\* leftmost and lies on the other strand
C6_Witness ==
    /\ Extracted
    /\ \E i \in Indices(introns) :
          LET rows == ExonsOf(introns.rows[i].transcript_id)
          IN  /\ 1 \notin Leftmost(rows)
              /\ Cardinality(Leftmost(rows)) = 1
              /\ rows[1].strand # introns.rows[i].strand

\* C7: exons without a transcript_id key all get "unknown", form one group
\* and give introns across transcripts, each with transcript_id "unknown";
\* the missing key is not an error.
LacksTranscriptId(attribute) == attribute \in {Attr_G1, Attr_G2}

UnknownPoints == {exons.rows[i].start : i \in {k \in Indices(exons) :
                                                  LacksTranscriptId(exons.rows[k].attribute)}}

UnknownGaps ==
    {<<a + 1, b - 1>> : <<a, b>> \in
        {ab \in UnknownPoints \X UnknownPoints :
            /\ ab[2] >= ab[1] + 2
            /\ \A c \in UnknownPoints : ~(ab[1] < c /\ c < ab[2])}}

C7_UnknownIsOneGroup ==
    /\ Extracted =>
          /\ \A i \in Indices(exons) :
                LacksTranscriptId(exons.rows[i].attribute)
                    <=> exons.rows[i].transcript_id = <<"unknown">>
          /\ Range(Map(IntronsOf(<<"unknown">>), Span)) = UnknownGaps
          /\ Len(IntronsOf(<<"unknown">>)) = Cardinality(UnknownGaps)
    /\ pc = "error" => \E i \in DOMAIN gtf_file : gtf_file[i][Len(cols)] = Attr_NoSpace

\* An intron between an exon of gene G1 and an exon of gene G2
C7_Witness ==
    /\ Extracted
    /\ Len(exons.rows) = 2
    /\ {exons.rows[i].attribute : i \in Indices(exons)} = {Attr_G1, Attr_G2}
    /\ Len(introns.rows) = 1
    /\ introns.rows[1].transcript_id = <<"unknown">>

\* C8: with start <= end in every exon, the introns of a transcript are
\* emitted with strictly increasing start.
C8_IntronsAscend ==
    (Extracted /\ \A i \in Indices(exons) : exons.rows[i].start <= exons.rows[i].end) =>
        \A tid \in TranscriptIds :
            \A i \in 1..(Len(IntronsOf(tid)) - 1) :
                IntronsOf(tid)[i].start < IntronsOf(tid)[i + 1].start

\* Two introns of a transcript that has an exon nested in another
C8_Witness ==
    /\ Extracted
    /\ Len(introns.rows) = 2
    /\ \E i, j \in Indices(exons) :
          /\ exons.rows[i].start < exons.rows[j].start
          /\ exons.rows[j].end < exons.rows[i].end

IntronSet(file) ==
    Range(extract_introns(exon_rows(read_gtf(file)), sort_ties).introns.rows)

Reorderings == {Arranged(gtf_file, p) : p \in Arrangements(Len(gtf_file))}

C10_AnyOrderSameIntrons ==
    Extracted => \A file \in Reorderings : IntronSet(file) = Range(introns.rows)

\* C10 amended: the set of introns is the same for every order of the
\* lines, provided no two exons of one transcript have the same start.
DistinctStarts ==
    \A i, j \in Indices(exons) :
        (i # j /\ exons.rows[i].transcript_id = exons.rows[j].transcript_id)
            => exons.rows[i].start # exons.rows[j].start

C10_AnyOrderSameIntronsDistinctStarts ==
    (Extracted /\ DistinctStarts) =>
        \A file \in Reorderings : IntronSet(file) = Range(introns.rows)

\* Three exons of one transcript given in descending order, with two introns
C10_Witness ==
    /\ Extracted
    /\ DistinctStarts
    /\ Len(exons.rows) = 3
    /\ exons.rows[1].start > exons.rows[2].start
    /\ exons.rows[2].start > exons.rows[3].start
    /\ Len(introns.rows) = 2

====
